---- MODULE Spec2Model ----
(***************************************************************************)
(* The recursive workflow TemporalPythonSdkIssue300 (definitions.py), its  *)
(* activity temporal_python_sdk_issue_300, the submission made by trigger  *)
(* and the worker with its one-process activity executor (main.py), as a   *)
(* discrete-event state machine.  Time is counted in seconds; `now` jumps  *)
(* from one due date (timer, deadline, end of a blocking sleep) to the     *)
(* next.  Server deadlines are enforced when due; the worker's own steps   *)
(* may be taken late.                                                      *)
(***************************************************************************)
EXTENDS Integers, Sequences, FiniteSets, TLC

VARIABLES
    inv,        \* every invocation created so far, in creation order
    poolQueue,  \* activity invocations waiting for the executor's process
    now,        \* wall-clock time, seconds
    workerUp,   \* Worker.run() is serving
    faults,     \* executor failures handed to the worker so far
    fatalReports \* calls of log_error so far

workerVars == <<workerUp, faults, fatalReports>>
vars == <<inv, poolQueue, now, workerUp, faults, fatalReports>>

(* ---------------------------------------------------------------- bounds *)

MaxSubWorkflows == 2
MaxSubActivities == 2
MaxSubmissions == 2
MaxClockNs == 1
Delays == {0, 5, 70, 560, 700}
Prefixes == {"a", "b"}

(* ------------------------------------------------------------- constants *)

WORKFLOW_NAME == "temporal-sdk-python-issue-300"
ACTIVITY_NAME == "temporal-sdk-python-issue-300"
TEN_MINUTES == 600
\* Variant: a deadline of ten minutes for a child workflow
OneMinuteTimesTen == 10 * 60

ONE_MINUTE == 60

\* Variant: RetryPolicy(maximum_attempts=2)
RetryOnce == 1 + 1

NO_RETRY == 1

\* Variant: start_to_close_timeout of one minute
StartToCloseShort == 1 * 60

\* start_to_close_timeout=timedelta(minutes=10)
START_TO_CLOSE == 600

NsPerSecond == 10 ^ 9

(* --------------------------------------------------------------- helpers *)

Ids == 1..Len(inv)

Min(S) == CHOOSE x \in S : \A y \in S : x <= y

NonTerminal == {"Pending", "Sleeping", "AwaitingChildren"}
Terminal == {"Completed", "Failed", "TimedOut"}

IsTask(i) == inv[i].kind = "Task"
IsActivity(i) == inv[i].kind = "Activity"
Live(i) == IsTask(i) /\ inv[i].status \in NonTerminal

\* The awaitables of invocation p's current run, in the order of the list
\* `workflows`: the ids of the invocations it issued.
Children(p) == {c \in Ids : inv[c].parent = p /\ inv[c].run = inv[p].attempt}

RECURSIVE IsDescendant(_, _)
IsDescendant(c, p) ==
    IF inv[c].parent = 0 THEN FALSE
    ELSE inv[c].parent = p \/ IsDescendant(inv[c].parent, p)

NoCause == [kind |-> "None", index |-> 0]

(* ------------------------------------------------------------ trigger *)

TemporalPythonSdkIssue300Input(text, timeout, sub_workflows, sub_activities) ==
    [text |-> text, timeout |-> timeout,
     sub_workflows |-> sub_workflows, sub_activities |-> sub_activities]

\* f"{task_id_prefix}-{WORKFLOW_NAME}-{time_ns()}"
WorkflowId(task_id_prefix, ns) ==
    task_id_prefix \o "-" \o WORKFLOW_NAME \o "-" \o ToString(ns)

\* client.execute_workflow: one top-level invocation, id, execution timeout
\* and retry policy as given.
ExecuteWorkflow(id, data, execution_timeout, retry_policy) ==
    [kind |-> "Task", name |-> WORKFLOW_NAME, parent |-> 0, index |-> 0,
     run |-> 0, data |-> data, status |-> "Pending", startedAt |-> now,
     wakeAt |-> 0, deadline |-> now + execution_timeout,
     attempt |-> 1, maxAttempts |-> retry_policy, id |-> id,
     result |-> "pending", retval |-> 0, output |-> "", cause |-> NoCause]

\* The server starts no second workflow under the id of one that is open:
\* execute_workflow raises and the submission has failed.
Refused(r) ==
    [r EXCEPT !.status = "Failed", !.result = "error",
              !.cause = [kind |-> "AlreadyStarted", index |-> 0]]

\* trigger, in a process whose time_ns() reads ns.
Submit(task_id_prefix, ns, timeout, sub_workflows, sub_activities) ==
    LET r == ExecuteWorkflow(
                 WorkflowId(task_id_prefix, ns),
                 TemporalPythonSdkIssue300Input("hello world", timeout,
                                                sub_workflows, sub_activities),
                 TEN_MINUTES, NO_RETRY)
        open == \E i \in Ids : inv[i].id = r.id /\ inv[i].status \in NonTerminal
    IN  /\ inv' = Append(inv, IF open THEN Refused(r) ELSE r)
        /\ UNCHANGED <<poolQueue, now, workerVars>>

\* One run of trigger.
Trigger(timeout, sub_workflows, sub_activities) ==
    /\ inv = <<>>
    /\ Submit(CHOOSE x \in Prefixes : TRUE, now * NsPerSecond,
              timeout, sub_workflows, sub_activities)

\* Runs of trigger at the same time, in several processes, each with the
\* task prefix of its own settings and its own reading of the clock.
ConcurrentTrigger(task_id_prefix, ns, timeout, sub_workflows, sub_activities) ==
    /\ Len(inv) < MaxSubmissions
    /\ Submit(task_id_prefix, ns, timeout, sub_workflows, sub_activities)

(* ------------------------------------------------------- workflow run *)

\* Variant: no timeout is ever enforced.
ExpiredNever(r) == FALSE

\* An invocation whose execution (and run) timeout has passed: the server
\* closes it and accepts no further activation of it.
Expired(r) == r.kind = "Task" /\ r.status \in NonTerminal /\ now >= r.deadline

\* Deadlines are enforced as they come due, before anything else happens at
\* that instant.
ServerIdle == \A j \in Ids : ~Expired(inv[j])

\* run, up to the first await: the workflow suspends on its timer.
Start(i) ==
    /\ i \in Ids /\ IsTask(i) /\ inv[i].status = "Pending"
    /\ workerUp /\ ServerIdle
    /\ inv' = [inv EXCEPT ![i].status = "Sleeping",
                          ![i].wakeAt = now + inv[i].data.timeout]
    /\ UNCHANGED <<poolQueue, now, workerVars>>

(* ------------------------------------------------------------ fan-out *)

\* execute_activity(WORKFLOW_NAME, data, start_to_close_timeout=10 minutes):
\* the k-th activity of invocation p, carrying p's own input.
ExecuteActivity(p, k) ==
    [kind |-> "Activity", name |-> WORKFLOW_NAME, parent |-> p, index |-> k,
     run |-> inv[p].attempt, data |-> inv[p].data, status |-> "Queued",
     startedAt |-> now, wakeAt |-> 0, deadline |-> now + START_TO_CLOSE,
     attempt |-> 1, maxAttempts |-> 0, id |-> "",
     result |-> "pending", retval |-> 0, output |-> "", cause |-> NoCause]

\* Variant: the child keeps its parent's fan-out counts.
ChildInputInherits(data, k) ==
    TemporalPythonSdkIssue300Input(data.text \o "-" \o ToString(k), data.timeout,
                                   data.sub_workflows, data.sub_activities)

\* Variant: the label is off by one.
ChildInputShifted(data, k) ==
    TemporalPythonSdkIssue300Input(data.text \o "-" \o ToString(k + 1),
                                   data.timeout, 0, 0)

\* The input derived for the k-th child workflow.
ChildInput(data, k) ==
    TemporalPythonSdkIssue300Input(data.text \o "-" \o ToString(k),
                                   data.timeout, 0, 0)

\* execute_child_workflow(..., execution_timeout=ONE_MINUTE,
\* run_timeout=ONE_MINUTE, retry_policy=NO_RETRY): the k-th child of p.
ExecuteChildWorkflow(p, k) ==
    [kind |-> "Task", name |-> WORKFLOW_NAME, parent |-> p, index |-> k,
     run |-> inv[p].attempt, data |-> ChildInput(inv[p].data, k),
     status |-> "Pending", startedAt |-> now, wakeAt |-> 0,
     deadline |-> now + ONE_MINUTE, attempt |-> 1, maxAttempts |-> NO_RETRY,
     id |-> "",
     result |-> "pending", retval |-> 0, output |-> "", cause |-> NoCause]

\* range(data.sub_activities) and range(data.sub_workflows)
\* Variant: one activity too few.
ActivityRangeShort(data) == 0 .. data.sub_activities - 2
ActivityRange(data) == 0 .. data.sub_activities - 1
WorkflowRange(data) == 0 .. data.sub_workflows - 1

\* The worker runs an activity task whose name one of its activities has.
\* Variant: the activity is registered under its function's name.
RegisteredByFunctionName(name) == name = "temporal_python_sdk_issue_300"
Registered(name) == name = ACTIVITY_NAME

\* str() of a float holding a whole number of seconds: 5.0 -> "5.0"
FloatStr(t) == ToString(t) \o ".0"

\* f"{data.timeout}s later..."
OutputText(data) == FloatStr(data.timeout) \o "s later..."

\* asyncio.sleep(data.timeout) returns once the timer has fired.
\* Variant: the fan-out does not wait for the timer.
SleepOverEarly(r) == r.status = "Sleeping"
SleepOver(r) == r.status = "Sleeping" /\ now >= r.wakeAt

\* The invocations a fan-out hands to the activity executor: its activities.
\* Variant: the child workflows take a process of the executor as well.
SubmittedAll(base, na, nw) == [k \in 1 .. na + nw |-> base + k]
Submitted(base, na, nw) == [k \in 1 .. na |-> base + k]

\* ProcessPoolExecutor.submit: the work waits in the executor's queue.
\* Variant: work beyond the free processes is turned away.
EnqueueIfFree(q, items) ==
    IF q \o items = <<>> THEN <<>> ELSE <<Head(q \o items)>>
Enqueue(q, items) == q \o items

\* The timer fired and run goes on to its next await, in one activation:
\* the two list comprehensions, activities first, then child workflows, and
\* gather, which issues them all.  gather of no awaitable is done at once
\* and run returns its output in the same activation.  An activity handed
\* to a broken executor fails at once, as one more failure for the worker.
Resume(i) ==
    /\ i \in Ids /\ IsTask(i) /\ SleepOver(inv[i])
    /\ workerUp /\ ServerIdle
    /\ LET na == Cardinality(ActivityRange(inv[i].data))
           nw == Cardinality(WorkflowRange(inv[i].data))
           acts == [k \in 1..na |-> ExecuteActivity(i, k - 1)]
           subs == [k \in 1..nw |-> ExecuteChildWorkflow(i, k - 1)]
           base == Len(inv)
           issued == Submitted(base, na, nw)
           broken == faults > 0
           lost == [k \in 1..na |-> [acts[k] EXCEPT !.status = "Faulted"]]
           joining == [inv EXCEPT ![i].status = "AwaitingChildren"]
           returned == [inv EXCEPT ![i].status = "Completed",
                                   ![i].result = "value",
                                   ![i].output = OutputText(inv[i].data)]
       IN  /\ inv' = (IF na + nw = 0 THEN returned ELSE joining)
                         \o (IF broken THEN lost ELSE acts) \o subs
           /\ poolQueue' =
                  IF broken THEN poolQueue
                  ELSE Enqueue(poolQueue,
                               SelectSeq(issued,
                                         LAMBDA a : Registered((acts \o subs)[a - base].name)))
           /\ faults' = IF broken THEN faults + na ELSE faults
    /\ UNCHANGED <<now, workerUp, fatalReports>>

(* ----------------------------------------------- the activity executor *)

Running == {a \in Ids : IsActivity(a) /\ inv[a].status = "Running"}

\* Variant: an executor of two processes.
PoolSizeTwo == 1 + 1

\* activity_executor=ProcessPoolExecutor(1)
PoolSize == 1

\* ProcessPoolExecutor(PoolSize): a free process takes the oldest queued
\* activity; temporal_python_sdk_issue_300 starts its blocking sleep.
PoolStart ==
    /\ workerUp /\ faults = 0
    /\ poolQueue # <<>>
    /\ Cardinality(Running) < PoolSize
    /\ LET a == Head(poolQueue)
       IN  inv' = [inv EXCEPT ![a].status = "Running",
                              ![a].wakeAt = now + inv[a].data.timeout]
    /\ poolQueue' = Tail(poolQueue)
    /\ UNCHANGED <<now, workerVars>>

ActivityValue(data) == 1000 * data.timeout

\* sleep(data.timeout) is over: the activity returns and frees its process.
\* The value reaches the awaiting workflow unless that has closed meanwhile.
ActivityReturn(a) ==
    /\ a \in Running
    /\ now >= inv[a].wakeAt
    /\ inv' = [inv EXCEPT ![a].status = "Done",
                          ![a].retval = ActivityValue(inv[a].data),
                          ![a].result = IF @ = "pending" THEN "value" ELSE @]
    /\ UNCHANGED <<poolQueue, now, workerVars>>

(* ----------------------------------------------------------- pool fault *)

\* A process of the executor dies under a running activity: the executor is
\* broken, and the running and the queued executions all fail with it, each
\* one a failure handed to the worker.
PoolFault ==
    /\ workerUp /\ faults = 0
    /\ Running # {}
    /\ LET gone == Running \cup {poolQueue[k] : k \in DOMAIN poolQueue}
       IN  /\ inv' = [j \in DOMAIN inv |->
                        IF j \in gone THEN [inv[j] EXCEPT !.status = "Faulted"]
                        ELSE inv[j]]
           /\ faults' = Cardinality(gone)
    /\ poolQueue' = <<>>
    /\ UNCHANGED <<now, workerUp, fatalReports>>

\* The calls of on_fatal_error for n failures handed to the worker: run()
\* ends on the first of them and reports once.
\* Variant: one report per failure.
FatalCallsEach(n) == n
FatalCalls(n) == 1

\* Worker(...).run() ends on the fatal error: log_error is awaited and the
\* worker serves no more.
WorkerExit ==
    /\ workerUp /\ faults > 0
    /\ workerUp' = FALSE
    /\ fatalReports' = fatalReports + FatalCalls(faults)
    /\ UNCHANGED <<inv, poolQueue, now, faults>>

(* ------------------------------------------------------- join, result *)

\* Closing invocation p: its outstanding child workflows are terminated and
\* its outstanding activities are cancelled on the server.  A cancelled
\* activity that runs or waits in the executor is not interrupted: it never
\* heartbeats, and its sleep blocks.
\* Variant: every child is closed again, whatever became of it.
OutstandingOrNot(r) == TRUE

\* A child whose result its parent still waits for.
Outstanding(r) == r.result = "pending"

CloseChildren(s, p) ==
    [j \in DOMAIN s |->
        IF j # p /\ IsDescendant(j, p) /\ Outstanding(s[j])
        THEN IF s[j].kind = "Task"
             THEN [s[j] EXCEPT !.status = "Failed", !.result = "cancelled",
                               !.cause = [kind |-> "Cancelled", index |-> 0]]
             ELSE [s[j] EXCEPT !.result = "cancelled"]
        ELSE s[j]]

\* asyncio.gather(*workflows) returns once every awaitable has a value.
\* Variants: gather(return_exceptions=True); no await of gather.
AllSettled(p) == \A c \in Children(p) : inv[c].result # "pending"
NoneAwaited(p) == TRUE
AllJoined(p) == \A c \in Children(p) : inv[c].result = "value"

\* gather returned: run returns its output.
Complete(i) ==
    /\ i \in Ids /\ IsTask(i) /\ inv[i].status = "AwaitingChildren"
    /\ workerUp /\ ServerIdle
    /\ AllJoined(i)
    /\ inv' = [inv EXCEPT ![i].status = "Completed", ![i].result = "value",
                          ![i].output = OutputText(inv[i].data)]
    /\ UNCHANGED <<poolQueue, now, workerVars>>

\* The exception gather raises for the failure of child c.
\* Variant: the failure of the first awaitable, whichever child failed.
FailureCauseFirst(c) == [kind |-> inv[c].kind, index |-> 0]
FailureCause(c) == [kind |-> inv[c].kind, index |-> inv[c].index]

\* gather raises the failure of child c out of run: the run fails, and is
\* started again only while the retry policy has attempts left.
GatherRaise(i, c) ==
    /\ i \in Ids /\ IsTask(i) /\ inv[i].status = "AwaitingChildren"
    /\ workerUp /\ ServerIdle
    /\ c \in Children(i) /\ inv[c].result = "error"
    /\ LET failed == [inv EXCEPT ![i].status = "Failed", ![i].result = "error",
                                 ![i].cause = FailureCause(c)]
           again == [inv EXCEPT ![i].status = "Pending",
                                ![i].attempt = @ + 1]
       IN  inv' = CloseChildren(IF inv[i].attempt < inv[i].maxAttempts
                                THEN again ELSE failed, i)
    /\ UNCHANGED <<poolQueue, now, workerVars>>

(* ------------------------------------------------------------ deadlines *)

\* The execution (and run) timeout of a workflow: enforced by the server.
Timeout(i) ==
    /\ i \in Ids /\ Expired(inv[i])
    /\ inv' = CloseChildren([inv EXCEPT ![i].status = "TimedOut",
                                        ![i].result = "error",
                                        ![i].cause = [kind |-> "Timeout",
                                                      index |-> 0]], i)
    /\ UNCHANGED <<poolQueue, now, workerVars>>

\* The executor has a step to take at this instant: a free process and a
\* queued activity, or a sleep that is over.
PoolBusy ==
    \/ workerUp /\ faults = 0 /\ poolQueue # <<>> /\ Cardinality(Running) < PoolSize
    \/ \E a \in Running : now >= inv[a].wakeAt

DueTimes ==
    {inv[i].deadline : i \in {j \in Ids : Live(j)}}
    \cup {inv[i].wakeAt : i \in {j \in Ids : IsTask(j) /\ inv[j].status = "Sleeping"}}
    \cup {inv[i].wakeAt : i \in Running}

\* Time passes up to the next due date, never past an unenforced deadline
\* nor past a step of the executor, whose processes are not held up by
\* anything.  A workflow activation waits for the worker's polls of the
\* server and may come any time later.
Advance ==
    /\ ServerIdle
    /\ ~PoolBusy
    /\ LET later == {t \in DueTimes : t > now}
       IN  later # {} /\ now' = Min(later)
    /\ UNCHANGED <<inv, poolQueue, workerVars>>

(* -------------------------------------------------------- specification *)

Init ==
    /\ inv = <<>>
    /\ poolQueue = <<>>
    /\ now = 0
    /\ workerUp = TRUE
    /\ faults = 0
    /\ fatalReports = 0

Next ==
    \/ \E t \in Delays, sw \in 0..MaxSubWorkflows, sa \in 0..MaxSubActivities :
          Trigger(t, sw, sa)
    \/ \E i \in Ids : Start(i)
    \/ \E i \in Ids : Resume(i)
    \/ PoolStart
    \/ \E a \in Ids : ActivityReturn(a)
    \/ \E i \in Ids : Complete(i)
    \/ \E i \in Ids, c \in Ids : GatherRaise(i, c)
    \/ \E i \in Ids : Timeout(i)
    \/ PoolFault
    \/ WorkerExit
    \/ Advance

Spec == Init /\ [][Next]_vars

\* Time passes, the server enforces deadlines, the executor's processes run
\* and run() ends on a fatal error; nothing obliges the worker to take a
\* workflow activation.
FairSpec ==
    /\ Spec
    /\ WF_vars(WorkerExit)
    /\ WF_vars(Advance)
    /\ WF_vars(\E i \in Ids : Timeout(i))
    /\ WF_vars(PoolStart)
    /\ WF_vars(\E a \in Ids : ActivityReturn(a))

\* Submissions only: several runs of trigger at one instant.
SubmitNext ==
    \E prefix \in Prefixes, ns \in 0 .. MaxClockNs, t \in Delays,
       sw \in 0 .. MaxSubWorkflows, sa \in 0 .. MaxSubActivities :
          ConcurrentTrigger(prefix, now * NsPerSecond + ns, t, sw, sa)

SubmitSpec == Init /\ [][SubmitNext]_vars

(* ================================================================ claims *)

Tasks == {i \in Ids : IsTask(i)}
Activities == {i \in Ids : IsActivity(i)}
Issued(p) == {c \in Ids : inv[c].parent = p}
FannedOut(p) == inv[p].status \in {"AwaitingChildren", "Completed"}
                  \/ (inv[p].status = "Failed" /\ inv[p].cause.kind # "Cancelled")

\* C1: a parent one of whose children has failed or timed out is never
\* Completed; its terminal state is Failed or TimedOut, whatever the other
\* children did.
C1_JoinIsFullBarrier ==
    \A p \in Tasks :
        (\E c \in Issued(p) : inv[c].result = "error")
            => /\ inv[p].status # "Completed"
               /\ inv[p].output = ""
               /\ inv[p].status \in Terminal => inv[p].status \in {"Failed", "TimedOut"}

\* One child failed, every other child (at least one) returned its value,
\* and the parent has failed.
C1_Witness ==
    \E p \in Tasks :
        /\ inv[p].status = "Failed"
        /\ Cardinality(Issued(p)) >= 2
        /\ \E c \in Issued(p) :
              /\ inv[c].result = "error"
              /\ \A d \in Issued(p) \ {c} : inv[d].result = "value"

\* C2: a submitted top-level invocation eventually reaches a terminal state;
\* Completed carries the text made of the delay alone, Failed and TimedOut
\* carry a cause.
C2_EventuallyTerminal ==
    /\ [](\A i \in Ids :
            inv[i].parent = 0 =>
              /\ inv[i].status = "Completed" =>
                    inv[i].output = ToString(inv[i].data.timeout) \o ".0s later..."
              /\ inv[i].status \in {"Failed", "TimedOut"} =>
                    inv[i].cause.kind \in {"Activity", "Task", "Timeout"})
    /\ (Len(inv) > 0) ~> (Len(inv) > 0 /\ inv[1].status \in Terminal)

\* The top-level invocation ended by its execution timeout with children
\* outstanding.
C2_Witness ==
    /\ Len(inv) > 1
    /\ inv[1].status = "TimedOut"
    /\ inv[1].cause.kind = "Timeout"

\* C3: a Completed parent has no pending child: every child it issued has
\* completed with a value, and only a Completed invocation has an output.
C3_CompletedOnlyAfterJoin ==
    \A p \in Tasks :
        /\ inv[p].status = "Completed" =>
              \A c \in Issued(p) : inv[c].result = "value"
        /\ inv[p].output # "" => inv[p].status = "Completed"

\* A parent Completed over an activity and a child task.
C3_Witness ==
    \E p \in Tasks :
        /\ inv[p].status = "Completed"
        /\ \E a \in Issued(p) : IsActivity(a) /\ inv[a].status = "Done"
        /\ \E c \in Issued(p) : IsTask(c) /\ inv[c].status = "Completed"

\* C4: a child task requests no fan-out of its own, only the top-level
\* invocation has children, and a submission with M child tasks and N
\* activities makes at most 1 + M + N invocations.
C4_NoFurtherFanOut ==
    /\ \A c \in Tasks :
          inv[c].parent # 0 =>
             inv[c].data.sub_workflows = 0 /\ inv[c].data.sub_activities = 0
    /\ \A c \in Ids : inv[c].parent # 0 => inv[inv[c].parent].parent = 0
    /\ Len(inv) > 0 =>
          Len(inv) <= 1 + inv[1].data.sub_workflows + inv[1].data.sub_activities

\* A child task went through its own fan-out and join and completed, and the
\* submission made exactly 1 + M + N invocations, M >= 1 and N >= 1.
C4_Witness ==
    /\ Len(inv) > 0
    /\ inv[1].data.sub_workflows >= 1 /\ inv[1].data.sub_activities >= 1
    /\ Len(inv) = 1 + inv[1].data.sub_workflows + inv[1].data.sub_activities
    /\ \E c \in Tasks : inv[c].parent = 1 /\ inv[c].status = "Completed"

\* C5: the child task of fan-out index i carries the label text-i of its
\* parent's text, and the k child tasks of a parent use the indices 0..k-1
\* once each, in every state and so in every order of completion.
C5_FanOutIndexDeterminism ==
    \A p \in Tasks :
        LET subs == {c \in Issued(p) : IsTask(c)}
        IN  /\ \A c \in subs :
                  /\ inv[c].index \in 0 .. inv[p].data.sub_workflows - 1
                  /\ inv[c].data.text
                        = inv[p].data.text \o "-" \o ToString(inv[c].index)
            /\ \A c, d \in subs : inv[c].index = inv[d].index => c = d
            /\ FannedOut(p) =>
                  {inv[c].index : c \in subs} = 0 .. inv[p].data.sub_workflows - 1
            /\ inv[p].parent = 0 /\ inv[p].data.sub_workflows = 2 /\ subs # {} =>
                  {inv[c].data.text : c \in subs} = {"hello world-0", "hello world-1"}

\* The child of index 1 has completed before the child of index 0.
C5_Witness ==
    \E c, d \in Tasks :
        /\ inv[c].parent = 1 /\ inv[d].parent = 1
        /\ inv[c].index = 1 /\ inv[c].status = "Completed"
        /\ inv[c].data.text = "hello world-1"
        /\ inv[d].index = 0 /\ inv[d].status \in NonTerminal

\* C6: at most one activity execution holds the executor's process at a time,
\* and K activities of duration D that have returned took at least K * D
\* since the first of them was issued.
C6_PoolOneAtATime ==
    /\ Cardinality(Running) <= 1
    /\ LET done == {a \in Activities : inv[a].status = "Done"}
       IN  done # {} =>
              now - Min({inv[a].startedAt : a \in done})
                 >= Cardinality(done) * inv[1].data.timeout

\* Two activities of a positive duration have both returned.
C6_Witness ==
    /\ Cardinality({a \in Activities : inv[a].status = "Done"}) >= 2
    /\ inv[1].data.timeout > 0

\* C7: once a parent is in a terminal state, none of its children is still
\* running or holding the executor's process.
C7_NoChildOrphaned ==
    \A p \in Tasks :
        inv[p].status \in Terminal =>
            \A c \in Issued(p) : ~Live(c) /\ c \notin Running

C9_FanOutCounts ==
    /\ \A p \in Tasks :
          LET acts == {c \in Issued(p) : IsActivity(c)}
              subs == {c \in Issued(p) : IsTask(c)}
          IN  /\ FannedOut(p) =>
                    /\ Cardinality(acts) = inv[p].data.sub_activities
                    /\ Cardinality(subs) = inv[p].data.sub_workflows
              /\ Issued(p) # {} =>
                    /\ Cardinality(acts) = inv[p].data.sub_activities
                    /\ Cardinality(subs) = inv[p].data.sub_workflows
              /\ inv[p].status = "Completed" =>
                    inv[p].output = ToString(inv[p].data.timeout) \o ".0s later..."
    /\ \A a \in Activities :
          inv[a].status = "Done" =>
             inv[a].retval = 1000 * inv[inv[a].parent].data.timeout

\* Delay 5 with two child tasks and two activities: both activities returned
\* 5000, both child tasks completed without a child of their own, and the
\* parent's text is "5.0s later...".
C9_Witness ==
    /\ Len(inv) = 5
    /\ inv[1].status = "Completed" /\ inv[1].output = "5.0s later..."
    /\ \A a \in Issued(1) : IsActivity(a) => inv[a].retval = 5000
    /\ \A c \in Issued(1) : IsTask(c) =>
          inv[c].status = "Completed" /\ Issued(c) = {}
    /\ Cardinality({a \in Issued(1) : IsActivity(a)}) = 2

\* C10: an invocation that has not finished its delay has no children, a step
\* creates children only for a parent whose delay is over, and an invocation
\* that ends while Pending or Sleeping without resuming ends TimedOut or
\* Failed with no child.
C10_NoFanOutBeforeWake ==
    [][\A p \in Ids :
          /\ inv[p].status \in {"Pending", "Sleeping"} => Issued(p) = {}
          /\ (\E c \in (Len(inv) + 1) .. Len(inv') : inv'[c].parent = p) =>
                inv[p].status = "Sleeping" /\ now >= inv[p].wakeAt
          /\ inv[p].status = "Sleeping" /\ inv'[p].status # "Sleeping" =>
                \/ now >= inv[p].wakeAt
                      /\ inv'[p].status \in {"AwaitingChildren", "Completed"}
                \/ /\ inv'[p].status \in {"TimedOut", "Failed"}
                   /\ \A c \in 1 .. Len(inv') : inv'[c].parent # p
      ]_vars

\* An invocation asked to fan out timed out in its delay, which outlasts its
\* deadline, and has no child.
C10_Witness ==
    /\ Len(inv) = 1
    /\ inv[1].status = "TimedOut"
    /\ inv[1].wakeAt > inv[1].deadline
    /\ inv[1].data.sub_workflows > 0 /\ inv[1].data.sub_activities > 0

\* The place of a status on the way Pending, Sleeping, AwaitingChildren,
\* terminal.
Rank(st) ==
    CASE st = "Pending" -> 0
      [] st = "Sleeping" -> 1
      [] st = "AwaitingChildren" -> 2
      [] OTHER -> 3

\* C11: no step moves a task's status backwards, and a task in a terminal
\* state keeps its status, its result and its output for good.
C11_StatusOnlyForward ==
    [][\A i \in Ids :
          IsTask(i) =>
             /\ inv'[i].status \in NonTerminal \cup Terminal
             /\ Rank(inv'[i].status) >= Rank(inv[i].status)
             /\ inv[i].status \in Terminal =>
                   /\ inv'[i].status = inv[i].status
                   /\ inv'[i].result = inv[i].result
                   /\ inv'[i].output = inv[i].output
      ]_vars

\* A child task completed, then its parent failed over a sibling and its
\* remaining children were closed: the completed child is still Completed.
C11_Witness ==
    /\ Len(inv) > 0
    /\ inv[1].status = "Failed"
    /\ \E c, d \in Tasks :
          /\ inv[c].parent = 1 /\ inv[c].status = "Completed"
          /\ inv[d].parent = 1 /\ inv[d].status = "TimedOut"

\* C12: every task, top-level or child, runs under maximum_attempts = 1: it
\* is in its first attempt in every state, and a failure at its join or a
\* timeout leaves it terminal, never Pending for another run.
C12_NoSecondAttempt ==
    /\ \A i \in Tasks : inv[i].maxAttempts = 1 /\ inv[i].attempt = 1
    /\ \A p \in Tasks :
          (\E c \in Issued(p) : inv[c].result = "error") =>
              inv[p].status \in {"AwaitingChildren", "Failed", "TimedOut"}

\* Both failed once and for all: a child task timed out in its first attempt
\* and the top-level invocation failed over it in its first attempt.
C12_Witness ==
    /\ Len(inv) > 0
    /\ inv[1].status = "Failed" /\ inv[1].attempt = 1
    /\ \E c \in Tasks :
          inv[c].parent = 1 /\ inv[c].status = "TimedOut" /\ inv[c].attempt = 1

MaxInv == 1 + MaxSubWorkflows + MaxSubActivities
InPool(a) == Cardinality({k \in DOMAIN poolQueue : poolQueue[k] = a})

\* C13: an activity issued while the executor's process is taken waits in
\* the queue, once, and is not turned away; every waiting activity is in the
\* end given the process, unless the executor breaks first.
C13_QueuedNeverDropped ==
    /\ [](\A a \in Ids :
            IsActivity(a) =>
               IF inv[a].status = "Queued" THEN InPool(a) = 1 ELSE InPool(a) = 0)
    /\ \A a \in 1 .. MaxInv :
          (a \in Ids /\ IsActivity(a) /\ inv[a].status = "Queued")
             ~> (a \in Ids /\ inv[a].status \in {"Running", "Done", "Faulted"})

\* The process is taken by one activity and another one waits for it.
C13_Witness ==
    /\ \E a \in Running : inv[a].wakeAt > now
    /\ \E b \in Activities : inv[b].status = "Queued" /\ InPool(b) = 1

C15_OnlyActivitiesHoldSlots ==
    /\ \A i \in Ids : inv[i].status \in {"Queued", "Running", "Faulted"} => IsActivity(i)
    /\ \A k \in DOMAIN poolQueue : IsActivity(poolQueue[k])
    /\ \A i \in Tasks : inv[i].status \in NonTerminal \cup Terminal
    /\ Cardinality({i \in Ids : inv[i].status = "Running"}) <= PoolSize

\* A child task slept and completed while the only process is held by an
\* activity in the middle of its sleep and its parent waits at its join.
C15_Witness ==
    /\ \E a \in Running : inv[a].wakeAt > now
    /\ \E c \in Tasks : inv[c].parent # 0 /\ inv[c].status = "Completed"
    /\ \E p \in Tasks : inv[p].status = "AwaitingChildren"

\* C16: two distinct top-level submissions never carry the same id.
C16_UniqueIds ==
    \A i, j \in Ids :
        (i # j /\ inv[i].parent = 0 /\ inv[j].parent = 0) => inv[i].id # inv[j].id

\* C17: what execute_activity issued under the workflow's name is an
\* activity for the executor: it is handed to the executor's queue, goes
\* through the executor's states only, never sleeps on a timer, joins or
\* fans out as a workflow does, and returns the activity's number.
C17_ActivityNeverRunsAsTask ==
    \A a \in Activities :
        /\ inv[a].name = WORKFLOW_NAME
        /\ inv[a].status \in {"Queued", "Running", "Done", "Faulted"}
        /\ inv[a].status = "Queued" => InPool(a) = 1
        /\ Issued(a) = {}
        /\ inv[a].output = ""
        /\ inv[a].result = "value" =>
              inv[a].status = "Done" /\ inv[a].retval = 1000 * inv[a].data.timeout

\* An activity issued under the workflow's name has run in the executor and
\* returned 1000 times its delay.
C17_Witness ==
    \E a \in Activities :
        /\ inv[a].name = "temporal-sdk-python-issue-300"
        /\ inv[a].status = "Done" /\ inv[a].result = "value"
        /\ inv[a].data.timeout > 0
        /\ inv[a].retval = 1000 * inv[a].data.timeout

LongDelay(p) ==
    /\ inv[p].parent = 0
    /\ inv[p].data.timeout > 60
    /\ inv[p].data.sub_workflows >= 1

\* C18 as stated: with a delay above one minute and at least one child task,
\* the parent is never Completed and every child task that has ended has
\* timed out.
C18_EveryChildTimesOut ==
    \A p \in Tasks :
        LongDelay(p) =>
           /\ inv[p].status # "Completed"
           /\ \A c \in Issued(p) :
                 (IsTask(c) /\ inv[c].status \in Terminal) => inv[c].status = "TimedOut"

\* C18 as amended: with a delay above one minute and at least one child
\* task, the parent is never Completed and no child task completes: a child
\* has the parent's delay and a sleep that outlasts its own deadline, and it
\* ends TimedOut, or terminated when its parent's execution timeout comes
\* first.
C18_NoChildCompletes ==
    \A p \in Tasks :
        LongDelay(p) =>
           /\ inv[p].status # "Completed"
           /\ \A c \in Issued(p) :
                 IsTask(c) =>
                    /\ inv[c].data.timeout = inv[p].data.timeout
                    /\ inv[c].deadline = inv[c].startedAt + 60
                    /\ inv[c].status # "Completed"
                    /\ inv[c].status = "Sleeping" => inv[c].wakeAt > inv[c].deadline
                    /\ inv[c].status \in Terminal =>
                          \/ inv[c].status = "TimedOut"
                          \/ /\ inv[c].status = "Failed"
                             /\ inv[c].cause.kind = "Cancelled"
                             /\ inv[p].status = "TimedOut"

\* A child task of delay 70 timed out in its sleep and its parent failed.
C18_Witness ==
    /\ Len(inv) > 0
    /\ LongDelay(1)
    /\ inv[1].status = "Failed"
    /\ \E c \in Issued(1) :
          /\ IsTask(c) /\ inv[c].status = "TimedOut"
          /\ inv[c].wakeAt > inv[c].deadline

\* C19: an activity of a top-level invocation is issued after the delay, so
\* its 10-minute timeout is due no earlier than the parent's execution
\* timeout; no activity timeout is due while the parent's own is not, no
\* activity fails its parent, and a top-level invocation never fails over an
\* activity.
C19_ActivityTimeoutNotFirst ==
    /\ \A a \in Activities :
          LET p == inv[a].parent
          IN  inv[p].parent = 0 =>
                 /\ inv[a].startedAt >= inv[p].startedAt + inv[p].data.timeout
                 /\ inv[a].deadline >= inv[p].deadline
                 /\ (inv[a].result = "pending" /\ now >= inv[a].deadline) =>
                       now >= inv[p].deadline
                 /\ inv[a].result # "error"
    /\ \A p \in Tasks :
          (inv[p].parent = 0 /\ inv[p].status \in {"Failed", "TimedOut"}) =>
              inv[p].cause.kind # "Activity"

\* The top-level invocation timed out at its join while its activity, issued
\* after the delay, was running with its own timeout still ahead.
C19_Witness ==
    /\ Len(inv) > 0
    /\ inv[1].status = "TimedOut"
    /\ \E a \in Running :
          /\ inv[a].parent = 1
          /\ inv[a].deadline > inv[1].deadline
          /\ inv[a].deadline > now

====
